---------------------------- MODULE Spec2Model ----------------------------
(***************************************************************************)
(* Model of src/src/lib.rs (crate mmap_file): a file mapped read-write     *)
(* (MmapMutFile), turned into a MmappedWriter that appends at pos, doubles *)
(* the mapping when a write does not fit, and truncates the file to pos    *)
(* when it is dropped.                                                     *)
(*                                                                         *)
(* The mapping is a shared mapping of the file: its bytes ARE the file's   *)
(* bytes, so the model keeps the bytes once, in `file`, and keeps of the   *)
(* mapping only its length, `map`.  File::set_len and MmapMut::map_mut are *)
(* calls into the OS that may fail; each call draws its outcome with \E.   *)
(***************************************************************************)
EXTENDS Integers, Sequences, FiniteSets, TLC

\* ------------------------------------------------------------- bounds
\* Largest length the file system grants a file: set_len beyond it fails.
MaxFileLen == 4
\* Longest chunk handed to one write().
MaxChunk == 3
\* Largest size handed to create_with_size().
MaxAlloc == 2

\* ------------------------------------------------------------- values
\* create (lib.rs 70): the size of the form without a size.
DEFAULT_SZ == 8192

\* Bytes a caller writes.
DataBytes == {1, 2}
\* The byte set_len fills new space with.
ZeroByte == 0
\* A byte of a file that existed before create_with_size().
StaleByte == 9

Min(a, b) == IF a <= b THEN a ELSE b

RECURSIVE Pow2(_)
Pow2(k) == IF k = 0 THEN 1 ELSE 2 * Pow2(k - 1)

\* The chunks a caller may write: every byte string of length 0..MaxChunk.
Chunks == UNION {[1..n -> DataBytes] : n \in 0..MaxChunk}

\* What the path may hold before the program runs (<<>> with exists = FALSE
\* is "no such file").
PriorFiles == {<<>>, <<StaleByte>>, <<StaleByte, StaleByte, StaleByte>>}

VARIABLES
    exists,     \* the path names a file
    file,       \* the file's bytes (its length is Len(file))
    map,        \* inner.map.len(): length of the mapped region
    pos,        \* MmappedWriter.pos
    pc,         \* where the program is
    buf,        \* the chunk of the write() in progress / last returned
    ret,        \* what the last completed call returned
    pos0,       \* pos when the current/last write() was called
    map0,       \* map when the current/last write() was called
    grows,      \* resizes that succeeded inside the current/last write()
    written,    \* concatenation of the chunks of the writes that returned Ok
    failedWrite,\* some write() returned Err
    dtrace,     \* the calls drop() has made so far, with their outcomes
    log,        \* the log::error! lines emitted
    prior       \* what the path held before the program ran

vars == <<exists, file, map, pos, pc, buf, ret, pos0, map0, grows, written,
          failedWrite, dtrace, log, prior>>

fileVars == <<exists, file, map>>
callVars == <<buf, pos0, map0, grows>>
histVars == <<written, failedWrite, dtrace, log>>

\* ------------------------------------------------------------- results
NoRet == [op |-> "none", ok |-> TRUE, n |-> 0, err |-> "none"]
OkRet(o, k) == [op |-> o, ok |-> TRUE, n |-> k, err |-> "none"]
ErrRet(o, e) == [op |-> o, ok |-> FALSE, n |-> 0, err |-> e]

\* ------------------------------------------------------------- the OS
\* Mutant of SetLen: the file is recreated at the new length, its bytes lost.
SetLenFresh(f, n) == [i \in 1..n |-> ZeroByte]

\* File::set_len: truncate, or extend with zero bytes.
SetLen(f, n) ==
    IF n <= Len(f) THEN SubSeq(f, 1, n)
    ELSE f \o [i \in 1..(n - Len(f)) |-> ZeroByte]

\* The outcomes of "set_len(new_len)? ; map_mut(&file)?": both succeed, the
\* length change fails, or the length change succeeds and the mapping fails.
\* The file system grants no length beyond MaxFileLen, and a file of length
\* 0 cannot be mapped (mmap of length 0 is an error: memmap returns
\* InvalidInput, "memory map must have a non-zero length").
ResizeOutcomes(new_len) ==
    IF new_len > MaxFileLen THEN {"set_len_err"}
    ELSE IF new_len = 0 THEN {"set_len_err", "map_err"}
    ELSE {"ok", "set_len_err", "map_err"}

\* The same for the sizes create_with_size is called with (0..MaxAlloc and
\* DEFAULT_SZ), all of which the file system grants.
AllocOutcomes(size) ==
    IF size = 0 THEN {"set_len_err", "map_err"}
    ELSE {"ok", "set_len_err", "map_err"}

\* Mutant of InnerResize: the file is emptied before it is given its new
\* length, so the new mapping is over zero bytes only.
InnerResizeRecreate(f, m, new_len, outcome) ==
    IF outcome = "set_len_err" THEN [file |-> f, map |-> m, ok |-> FALSE]
    ELSE IF outcome = "map_err"
         THEN [file |-> SetLen(<<>>, new_len), map |-> m, ok |-> FALSE]
         ELSE [file |-> SetLen(<<>>, new_len), map |-> new_len, ok |-> TRUE]

\* MmapMutFile::resize (lib.rs 75-79) on file f mapped with length m:
\* set_len, then remap; `?` leaves at the first failure, so a failed set_len
\* changes nothing and a failed map_mut leaves the new length under the old
\* mapping.
InnerResize(f, m, new_len, outcome) ==
    IF outcome = "set_len_err" THEN [file |-> f, map |-> m, ok |-> FALSE]
    ELSE IF outcome = "map_err"
         THEN [file |-> SetLen(f, new_len), map |-> m, ok |-> FALSE]
         ELSE [file |-> SetLen(f, new_len), map |-> new_len, ok |-> TRUE]

\* ------------------------------------------------------------- the cursor
\* Mutant of CursorPosition: set_position is left out, the cursor starts at 0.
CursorPositionZero(p) == 0

\* generate_cursor (lib.rs 107-112): the cursor starts at self.pos.
CursorPosition(p) == p

\* Cursor<&mut [u8]>::write_all(b) on a slice of length cap at position p:
\* the bytes copied are the prefix of b that fits in [p, cap).
CopyAmount(p, cap, b) == Min(Len(b), cap - Min(p, cap))

\* Mutant of WriteAllOk: write in place of write_all, a short copy is Ok.
WriteAllOkShort(p, cap, b) == Len(b) = 0 \/ CopyAmount(p, cap, b) > 0

\* Mutant of WriteAllOk: a copy of 0 bytes is WriteZero, also for an empty b.
WriteAllOkNonZero(p, cap, b) ==
    CopyAmount(p, cap, b) > 0 /\ CopyAmount(p, cap, b) = Len(b)

\* Mutant of WriteAllOk: a copy that ends exactly at the capacity is refused.
WriteAllOkStrict(p, cap, b) == p + Len(b) < cap

\* write_all returns Ok iff the whole of b was copied (WriteZero otherwise).
WriteAllOk(p, cap, b) == CopyAmount(p, cap, b) = Len(b)

\* The file after the copy through the mapping.
CursorWriteAll(f, p, cap, b) ==
    [i \in 1..Len(f) |->
        IF p < i /\ i <= p + CopyAmount(p, cap, b) THEN b[i - p] ELSE f[i]]

\* Mutant of GrowLen: the resize asks for the length the mapping has.
GrowLenSame(cap) == cap

\* write (lib.rs 119): the length asked for when the copy did not fit.
GrowLen(cap) == 2 * cap

\* Mutant of ResizePos: pos is reset to the new end of the file.
ResizePosEof(p, new_len) == new_len

\* MmappedWriter::resize (lib.rs 102): pos after a resize that succeeded.
ResizePos(p, new_len) == Min(p, new_len)

\* Mutant of TruncateLen: the file is left at the capacity.
TruncateLenCap(p, cap) == cap

\* drop (lib.rs 143): the length the file is truncated to.
TruncateLen(p, cap) == p

\* ------------------------------------------------------------- Init
Init ==
    /\ exists \in BOOLEAN
    /\ file \in (IF exists THEN PriorFiles ELSE {<<>>})
    /\ map = 0
    /\ pos = 0
    /\ pc = "start"
    /\ buf = <<>>
    /\ ret = NoRet
    /\ pos0 = 0
    /\ map0 = 0
    /\ grows = 0
    /\ written = <<>>
    /\ failedWrite = FALSE
    /\ dtrace = <<>>
    /\ log = <<>>
    /\ prior = [exists |-> exists, file |-> file]

\* ------------------------------------------------------------- actions
\* Mutant of CreateWithSize: set_len only extends; a longer file is left
\* at its length and mapped whole.
CreateWithSizeExtendOnly(size) ==
    /\ pc = "start"
    /\ \E o \in {"open_err"} \cup AllocOutcomes(size) :
         /\ exists' = (exists \/ o # "open_err")
         /\ IF o = "open_err"
            THEN /\ UNCHANGED <<file, map, pc>>
                 /\ ret' = ErrRet("create", o)
            ELSE LET n == IF Len(file) > size THEN Len(file) ELSE size
                     r == InnerResize(file, map, n, o) IN
                 /\ file' = r.file
                 /\ map' = r.map
                 /\ pc' = IF r.ok THEN "view" ELSE "start"
                 /\ ret' = IF r.ok THEN OkRet("create", size)
                                   ELSE ErrRet("create", o)
    /\ UNCHANGED <<pos, callVars, histVars, prior>>

\* MmapMutFile::create_with_size (lib.rs 52-67): open with create (and no
\* truncate), set_len(size), map_mut.
CreateWithSize(size) ==
    /\ pc = "start"
    /\ \E o \in {"open_err"} \cup AllocOutcomes(size) :
         /\ exists' = (exists \/ o # "open_err")
         /\ IF o = "open_err"
            THEN /\ UNCHANGED <<file, map, pc>>
                 /\ ret' = ErrRet("create", o)
            ELSE LET r == InnerResize(file, map, size, o) IN
                 /\ file' = r.file
                 /\ map' = r.map
                 /\ pc' = IF r.ok THEN "view" ELSE "start"
                 /\ ret' = IF r.ok THEN OkRet("create", size)
                                   ELSE ErrRet("create", o)
    /\ UNCHANGED <<pos, callVars, histVars, prior>>

\* MmapMutFile::create (lib.rs 69-73): create_with_size with DEFAULT_SZ.
Create == CreateWithSize(DEFAULT_SZ)

\* Mutant of Open: the file is opened with create(true); a missing file comes
\* to exist, empty, and then cannot be mapped.
OpenCreating ==
    /\ pc = "start"
    /\ \E o \in {"open_err", "map_err"}
               \cup (IF exists /\ Len(file) > 0 THEN {"ok"} ELSE {}) :
         /\ exists' = (exists \/ o # "open_err")
         /\ IF o = "ok"
            THEN /\ map' = Len(file)
                 /\ pc' = "ro_view"
                 /\ ret' = OkRet("open", Len(file))
            ELSE /\ ret' = ErrRet("open", o)
                 /\ UNCHANGED <<map, pc>>
    /\ UNCHANGED <<file, pos, callVars, histVars, prior>>

\* MmapFile::open (lib.rs 35-44): File::open (read-only, never creates), then
\* Mmap::map over the file's whole length; `?` leaves at the first failure.
\* A file that does not exist cannot be opened, an empty one cannot be mapped.
Open ==
    /\ pc = "start"
    /\ \E o \in {"open_err"}
               \cup (IF exists THEN {"map_err"} ELSE {})
               \cup (IF exists /\ Len(file) > 0 THEN {"ok"} ELSE {}) :
         IF o = "ok"
         THEN /\ map' = Len(file)
              /\ pc' = "ro_view"
              /\ ret' = OkRet("open", Len(file))
         ELSE /\ ret' = ErrRet("open", o)
              /\ UNCHANGED <<map, pc>>
    /\ UNCHANGED <<exists, file, pos, callVars, histVars, prior>>

\* MmappedFile::len (lib.rs 25-27), on either view: the length in the file's
\* metadata, or the error of the metadata call.
FileLen ==
    /\ pc \in {"view", "ro_view"}
    /\ \E ok \in BOOLEAN :
         ret' = IF ok THEN OkRet("len", Len(file))
                      ELSE ErrRet("len", "metadata_err")
    /\ UNCHANGED <<fileVars, pos, pc, callVars, histVars, prior>>

\* MmappedFile::is_empty (lib.rs 29-31): len()? == 0 (n = 1 for true).
IsEmpty ==
    /\ pc \in {"view", "ro_view"}
    /\ \E ok \in BOOLEAN :
         ret' = IF ok THEN OkRet("is_empty", IF Len(file) = 0 THEN 1 ELSE 0)
                      ELSE ErrRet("is_empty", "metadata_err")
    /\ UNCHANGED <<fileVars, pos, pc, callVars, histVars, prior>>

\* Deref / AsRef (lib.rs 158-176), on either view: the mapped bytes, read.
DerefView ==
    /\ pc \in {"view", "ro_view"}
    /\ ret' = OkRet("deref", map)
    /\ UNCHANGED <<fileVars, pos, pc, callVars, histVars, prior>>

\* MmapFile::as_str_unchecked (lib.rs 46-48), on the read-only view only: the
\* mapped bytes, read as text without a check.
AsStrUnchecked ==
    /\ pc = "ro_view"
    /\ ret' = OkRet("as_str_unchecked", map)
    /\ UNCHANGED <<fileVars, pos, pc, callVars, histVars, prior>>

\* Mutant of DerefMutStore: DerefMut implemented for every MmappedFile<M>,
\* the read-only view too.
DerefMutStoreAnyView(i, v) ==
    /\ pc \in {"view", "ro_view"}
    /\ i <= map /\ i <= Len(file)
    /\ file' = [file EXCEPT ![i] = v]
    /\ ret' = OkRet("deref_mut", map)
    /\ UNCHANGED <<exists, map, pos, pc, callVars, histVars, prior>>

\* DerefMut / AsMut (lib.rs 178-188), on the read-write view only: the caller
\* stores byte v at offset i - 1 of the mapping (views within MaxFileLen).
DerefMutStore(i, v) ==
    /\ pc = "view"
    /\ i <= map /\ i <= Len(file)
    /\ file' = [file EXCEPT ![i] = v]
    /\ ret' = OkRet("deref_mut", map)
    /\ UNCHANGED <<exists, map, pos, pc, callVars, histVars, prior>>

\* Mutant of IntoWriter: the writer starts at the end of the view (append).
IntoWriterAtEnd ==
    /\ pc = "view"
    /\ pc' = "idle"
    /\ pos' = map
    /\ ret' = OkRet("into_writer", 0)
    /\ UNCHANGED <<fileVars, callVars, histVars, prior>>

\* MmapMutFile::into_writer (lib.rs 81-86).
IntoWriter ==
    /\ pc = "view"
    /\ pc' = "idle"
    /\ pos' = 0
    /\ ret' = OkRet("into_writer", 0)
    /\ UNCHANGED <<fileVars, callVars, histVars, prior>>

\* write (lib.rs 115): the call is entered with chunk b (on writers whose
\* capacity is within MaxFileLen).
WriteCall(b) ==
    /\ pc = "idle"
    /\ map <= MaxFileLen
    /\ pc' = "write"
    /\ buf' = b
    /\ pos0' = pos
    /\ map0' = map
    /\ grows' = 0
    /\ UNCHANGED <<fileVars, pos, ret, histVars, prior>>

\* Mutant of WriteAttempt: `if` in place of `while`; after one resize the
\* copy is not checked again.
WriteAttemptOneGrow ==
    /\ pc = "write"
    /\ file' = CursorWriteAll(file, CursorPosition(pos), map, buf)
    /\ IF WriteAllOk(CursorPosition(pos), map, buf) \/ grows >= 1
       THEN /\ pos' = pos + Len(buf)
            /\ ret' = OkRet("write", Len(buf))
            /\ written' = written \o buf
            /\ pc' = "idle"
       ELSE /\ pc' = "grow"
            /\ UNCHANGED <<pos, ret, written>>
    /\ UNCHANGED <<exists, map, callVars, failedWrite, dtrace, log, prior>>

\* write (lib.rs 117, 125-127): the loop condition copies at the cursor; when
\* the copy is whole the loop ends, pos advances and Ok(buf.len()) returns,
\* otherwise (WriteZero, the only error a slice cursor gives) the body runs.
WriteAttempt ==
    /\ pc = "write"
    /\ file' = CursorWriteAll(file, CursorPosition(pos), map, buf)
    /\ IF WriteAllOk(CursorPosition(pos), map, buf)
       THEN /\ pos' = pos + Len(buf)
            /\ ret' = OkRet("write", Len(buf))
            /\ written' = written \o buf
            /\ pc' = "idle"
       ELSE /\ pc' = "grow"
            /\ UNCHANGED <<pos, ret, written>>
    /\ UNCHANGED <<exists, map, callVars, failedWrite, dtrace, log, prior>>

\* Mutant of WriteGrow: the result of resize is dropped (no `?`), the loop
\* copies again whatever the resize returned.
WriteGrowIgnoresError ==
    /\ pc = "grow"
    /\ \E o \in ResizeOutcomes(GrowLen(map)) :
         LET r == InnerResize(file, map, GrowLen(map), o) IN
         /\ file' = r.file
         /\ map' = r.map
         /\ pos' = IF r.ok THEN ResizePos(pos, GrowLen(map)) ELSE pos
         /\ grows' = IF r.ok THEN grows + 1 ELSE grows
         /\ pc' = "write"
         /\ UNCHANGED <<ret, failedWrite>>
    /\ UNCHANGED <<exists, buf, pos0, map0, written, dtrace, log, prior>>

\* Mutant of WriteGrow: a write that fails counts the prefix it had copied.
WriteGrowCountsPartial ==
    /\ pc = "grow"
    /\ \E o \in ResizeOutcomes(GrowLen(map)) :
         LET r == InnerResize(file, map, GrowLen(map), o) IN
         /\ file' = r.file
         /\ map' = r.map
         /\ IF r.ok
            THEN /\ pos' = ResizePos(pos, GrowLen(map))
                 /\ grows' = grows + 1
                 /\ pc' = "write"
                 /\ UNCHANGED <<ret, failedWrite>>
            ELSE /\ ret' = ErrRet("write", o)
                 /\ failedWrite' = TRUE
                 /\ pc' = "idle"
                 /\ pos' = pos + CopyAmount(pos, map, buf)
                 /\ UNCHANGED grows
    /\ UNCHANGED <<exists, buf, pos0, map0, written, dtrace, log, prior>>

\* write (lib.rs 119) with MmappedWriter::resize (lib.rs 95-105): double the
\* mapping; `?` returns the error of a failed resize from write at once.
WriteGrow ==
    /\ pc = "grow"
    /\ \E o \in ResizeOutcomes(GrowLen(map)) :
         LET r == InnerResize(file, map, GrowLen(map), o) IN
         /\ file' = r.file
         /\ map' = r.map
         /\ IF r.ok
            THEN /\ pos' = ResizePos(pos, GrowLen(map))
                 /\ grows' = grows + 1
                 /\ pc' = "write"
                 /\ UNCHANGED <<ret, failedWrite>>
            ELSE /\ ret' = ErrRet("write", o)
                 /\ failedWrite' = TRUE
                 /\ pc' = "idle"
                 /\ UNCHANGED <<pos, grows>>
    /\ UNCHANGED <<exists, buf, pos0, map0, written, dtrace, log, prior>>

\* flush (lib.rs 130-132): flush_async on the mapping; changes no byte.
Flush ==
    /\ pc = "idle"
    /\ \E ok \in BOOLEAN :
         ret' = IF ok THEN OkRet("flush", 0) ELSE ErrRet("flush", "flush_err")
    /\ UNCHANGED <<fileVars, pos, pc, callVars, histVars, prior>>

\* The writer goes out of scope: drop (lib.rs 142) is entered.
Drop ==
    /\ pc = "idle"
    /\ pc' = "drop_resize"
    /\ UNCHANGED <<fileVars, pos, ret, callVars, histVars, prior>>

\* Mutant of DropResize: a failed resize ends drop, flush is not reached.
DropResizeReturnsEarly ==
    /\ pc = "drop_resize"
    /\ \E o \in ResizeOutcomes(TruncateLen(pos, map)) :
         LET r == InnerResize(file, map, TruncateLen(pos, map), o) IN
         /\ file' = r.file
         /\ map' = r.map
         /\ dtrace' = Append(dtrace, [op |-> "resize", res |-> o])
         /\ log' = IF r.ok THEN log ELSE Append(log, o)
         /\ pc' = IF r.ok THEN "drop_flush" ELSE "dropped"
    /\ UNCHANGED <<exists, pos, ret, callVars, written, failedWrite, prior>>

\* drop (lib.rs 143-150): inner.resize(pos); an error is logged, not returned.
DropResize ==
    /\ pc = "drop_resize"
    /\ \E o \in ResizeOutcomes(TruncateLen(pos, map)) :
         LET r == InnerResize(file, map, TruncateLen(pos, map), o) IN
         /\ file' = r.file
         /\ map' = r.map
         /\ dtrace' = Append(dtrace, [op |-> "resize", res |-> o])
         /\ log' = IF r.ok THEN log ELSE Append(log, o)
    /\ pc' = "drop_flush"
    /\ UNCHANGED <<exists, pos, ret, callVars, written, failedWrite, prior>>

\* Mutant of DropFlush: flush().unwrap(), a failed flush panics out of drop.
DropFlushUnwrap ==
    /\ pc = "drop_flush"
    /\ \E ok \in BOOLEAN :
         /\ dtrace' = Append(dtrace,
                [op |-> "flush", res |-> IF ok THEN "ok" ELSE "flush_err"])
         /\ pc' = IF ok THEN "dropped" ELSE "panicked"
         /\ ret' = IF ok THEN ret ELSE ErrRet("drop", "flush_err")
    /\ UNCHANGED <<fileVars, pos, callVars, written, failedWrite, log, prior>>

\* drop (lib.rs 152-154): flush; an error is logged, not returned.
DropFlush ==
    /\ pc = "drop_flush"
    /\ \E ok \in BOOLEAN :
         /\ dtrace' = Append(dtrace,
                [op |-> "flush", res |-> IF ok THEN "ok" ELSE "flush_err"])
         /\ log' = IF ok THEN log ELSE Append(log, "flush_err")
    /\ pc' = "dropped"
    /\ UNCHANGED <<fileVars, pos, ret, callVars, written, failedWrite, prior>>

Next ==
    \/ \E size \in 0..MaxAlloc : CreateWithSize(size)
    \/ Create
    \/ Open
    \/ FileLen
    \/ IsEmpty
    \/ DerefView
    \/ AsStrUnchecked
    \/ \E i \in 1..MaxFileLen, v \in DataBytes : DerefMutStore(i, v)
    \/ IntoWriter
    \/ \E b \in Chunks : WriteCall(b)
    \/ WriteAttempt
    \/ WriteGrow
    \/ Flush
    \/ Drop
    \/ DropResize
    \/ DropFlush

Spec == Init /\ [][Next]_vars

\* The program is single-threaded and blocking: a write() that has been
\* entered keeps running, so the steps of its loop are taken when enabled.
FairSpec == Spec /\ WF_vars(WriteAttempt) /\ WF_vars(WriteGrow)


\* ------------------------------------------------------------- sanity
\* Every copy goes through a mapping that lies within the file: no store
\* lands beyond the end of the file.
MapWithinFile == pc \in {"view", "idle", "write", "grow"} => map <= Len(file)

\* The last completed call is a write() (buf, pos0, map0, grows are its own).
WriteReturned == pc = "idle" /\ ret.op = "write"

ResizeErrors == {"set_len_err", "map_err"}

\* ------------------------------------------------------------- claims

\* C1: when no write failed and the truncation (set_len) of disposal
\* succeeded, the file after disposal is exactly the concatenation of the
\* chunks written, in order, whatever doublings happened.
C1_RoundTrip ==
    (pc = "dropped" /\ ~failedWrite /\ dtrace[1].res # "set_len_err")
        => file = written

\* Two chunks, the second written after a doubling, then a clean disposal.
C1_Witness ==
    /\ pc = "dropped" /\ ~failedWrite /\ dtrace[1].res = "ok"
    /\ written = <<1, 2, 1>> /\ buf = <<1>> /\ grows >= 1
    /\ file = <<1, 2, 1>>

\* C2: after disposal whose set_len did not fail, the file's length is pos,
\* the sum of the lengths of the chunks written, not the capacity.
C2_TruncationExact ==
    (pc = "dropped" /\ dtrace[1].res # "set_len_err")
        => (Len(file) = pos /\ pos = Len(written))

\* Capacity 1, one write of 3 bytes (1 -> 2 -> 4), disposal: length 3.
C2_Witness ==
    /\ pc = "dropped" /\ dtrace[1].res = "ok"
    /\ map0 = 1 /\ grows = 2 /\ pos0 = 0 /\ Len(buf) = 3
    /\ pos = 3 /\ Len(file) = 3

\* C3: a write whose chunk does not fit returns Ok unless a resize failed,
\* and on Ok the capacity was doubled (at least once, map0 * 2^grows) to at
\* least old pos + len(chunk).
C3_GrowthCorrect ==
    (WriteReturned /\ pos0 + Len(buf) > map0) =>
        /\ ~ret.ok => ret.err \in ResizeErrors
        /\ ret.ok =>
              /\ map >= pos0 + Len(buf)
              /\ grows >= 1
              /\ map = map0 * Pow2(grows)

\* A chunk larger than twice the capacity: capacity 1, 3 bytes, two doublings.
C3_Witness ==
    /\ WriteReturned /\ ret.ok
    /\ map0 = 1 /\ Len(buf) = 3 /\ grows = 2 /\ map = 4

\* C4: in every reachable state pos is at most the mapped capacity.
C4_PosWithinCapacity == pos <= map

\* A full buffer after a write that failed, through to the end of disposal.
C4_Witness ==
    /\ pc = "dropped" /\ failedWrite /\ pos = 2 /\ map = 2

\* C5: a write that returns Ok returns len(chunk), advances pos by len(chunk)
\* and has the whole chunk stored at [old pos, old pos + len(chunk)).
C5_FullWrite ==
    (WriteReturned /\ ret.ok) =>
        /\ ret.n = Len(buf)
        /\ pos = pos0 + Len(buf)
        /\ pos <= Len(file)
        /\ SubSeq(file, pos0 + 1, pos) = buf

\* A 2-byte chunk appended at offset 1 after a doubling.
C5_Witness ==
    /\ WriteReturned /\ ret.ok /\ ret.n = 2
    /\ pos0 = 1 /\ buf = <<2, 1>> /\ grows >= 1
    /\ SubSeq(file, 2, 3) = <<2, 1>>

\* C6: a write of the empty chunk returns Ok(0) in one step of the loop and
\* leaves pos, the capacity, the file length and every byte as they were.
C6_EmptyWriteNoOp ==
    [][(pc = "write" /\ buf = <<>>) =>
          /\ pc' = "idle"
          /\ ret' = OkRet("write", 0)
          /\ pos' = pos /\ map' = map /\ file' = file]_vars

\* The empty chunk written when the buffer is exactly full.
C6_Witness ==
    /\ WriteReturned /\ ret = OkRet("write", 0) /\ buf = <<>>
    /\ pos = map /\ pos > 0 /\ grows = 0

\* C7: a write that returns an error returns the error of the resize that
\* failed, and pos is what it was when the write was called.
C7_FailedWriteKeepsPos ==
    (WriteReturned /\ ~ret.ok) => (pos = pos0 /\ ret.err \in ResizeErrors)

\* A write that doubled once and failed on the second resize, pos > 0.
C7_Witness ==
    /\ WriteReturned /\ ~ret.ok /\ ret.err = "map_err"
    /\ grows = 1 /\ pos0 = 1 /\ pos = 1

\* C8: wherever an operation other than resize observes the read-write view,
\* the length of the mapping equals the length of the file.
C8_MapLenIsFileLen ==
    pc \in {"view", "idle", "write", "drop_flush"} => map = Len(file)

\* C9: disposal calls resize(pos) and then flush: flush is never attempted
\* before the resize has returned, and is attempted exactly once, also after
\* a resize that failed.
C9_DropOrder ==
    /\ \A i \in 1..Len(dtrace) : dtrace[i].op = "flush" <=> i = 2
    /\ pc = "drop_flush" => Len(dtrace) = 1
    /\ pc = "dropped" => Len(dtrace) = 2
    /\ pc \notin {"drop_flush", "dropped"} => dtrace = <<>>

\* Disposal finished with the resize failed and the flush attempted.
C9_Witness ==
    /\ pc = "dropped"
    /\ dtrace[1] = [op |-> "resize", res |-> "set_len_err"]
    /\ dtrace[2].op = "flush"

\* C10 as stated: disposal ends with every failure logged, and a truncation
\* failure leaves the file length at a value other than pos.
C10_FailureLeavesOtherLength ==
    pc = "dropped" =>
        /\ Len(dtrace) = 2
        /\ dtrace[1].res # "ok" => Len(file) # pos

\* C10 amended: neither step of disposal returns an error or stops disposal;
\* each failure is logged and nothing else; a failed set_len leaves the file
\* as it was, and a failed remap leaves the file length at pos.
C10_DropNeverRaises ==
    [][/\ pc = "drop_resize" =>
            /\ pc' = "drop_flush" /\ ret' = ret
            /\ dtrace'[1].res = "set_len_err" =>
                   (file' = file /\ log' = <<"set_len_err">>)
            /\ dtrace'[1].res = "map_err" =>
                   (Len(file') = pos /\ log' = <<"map_err">>)
            /\ dtrace'[1].res = "ok" => (Len(file') = pos /\ log' = <<>>)
       /\ pc = "drop_flush" =>
            /\ pc' = "dropped" /\ ret' = ret /\ file' = file
            /\ log' = IF dtrace'[2].res = "ok" THEN log
                      ELSE Append(log, "flush_err")]_vars

\* Disposal ran to its end with both the resize and the flush failed, the
\* file left longer than pos.
C10_Witness ==
    /\ pc = "dropped"
    /\ dtrace[1].res = "set_len_err" /\ dtrace[2].res = "flush_err"
    /\ log = <<"set_len_err", "flush_err">>
    /\ Len(file) > pos

\* C11: a writer starts with pos = 0, and after a clean disposal the file is
\* a function of the chunks written alone (so two runs over different prior
\* files and the same writes end with the same file): it equals their
\* concatenation, has length pos, and holds no byte of the prior file.
C11_IndependentOfPriorFile ==
    /\ (pc = "idle" /\ ret.op = "into_writer") => pos = 0
    /\ (pc = "dropped" /\ ~failedWrite /\ dtrace[1].res # "set_len_err") =>
          /\ file = written
          /\ Len(file) = pos
          /\ \A i \in 1..Len(file) : file[i] # StaleByte

\* A prior file of 3 bytes, one byte written, clean disposal: 1 byte left.
C11_Witness ==
    /\ pc = "dropped" /\ ~failedWrite /\ dtrace[1].res = "ok"
    /\ prior.exists /\ prior.file = <<StaleByte, StaleByte, StaleByte>>
    /\ written = <<1>> /\ file = <<1>> /\ map0 = 2

\* C12: a create_with_size(path, size) that returns Ok leaves the file's
\* length and the mapping's length at size, whatever the path held before;
\* create(path) does so with size 8192.
C12_AllocateSetsLength ==
    [][/\ \A size \in (0..MaxAlloc) \cup {DEFAULT_SZ} :
             (CreateWithSize(size) /\ ret'.ok) =>
                 (pc' = "view" /\ Len(file') = size /\ map' = size)
       /\ (Create /\ ret'.ok) =>
             (pc' = "view" /\ Len(file') = 8192 /\ map' = 8192)]_vars

\* create(path) over an existing, shorter file: 8192 bytes, all mapped.
C12_Witness ==
    /\ pc = "view" /\ ret = OkRet("create", 8192)
    /\ prior.exists /\ Len(prior.file) = 3
    /\ Len(file) = 8192 /\ map = 8192

\* C13: open(path) on a path that names no file returns an error, yields no
\* view and leaves the file system as it was: no file comes to exist.
C13_OpenMissingFails ==
    [][(Open /\ ~exists) =>
          /\ ret'.op = "open" /\ ~ret'.ok
          /\ pc' = "start"
          /\ exists' = FALSE /\ file' = file /\ map' = map]_vars

\* open has failed on a path that still names no file.
C13_Witness ==
    /\ pc = "start" /\ ret = ErrRet("open", "open_err")
    /\ ~exists /\ ~prior.exists /\ file = <<>>

\* The operations of the read-only view: len, is_empty, byte access (Deref,
\* AsRef) and as_str_unchecked.
ReadOnlyOps == {"len", "is_empty", "deref", "as_str_unchecked"}

\* C14: every step taken on a read-only view is one of len, is_empty, byte
\* access and as_str_unchecked (never resize, mutable access or into_writer),
\* and it changes neither the file's length or bytes nor the mapping.
C14_ReadOnlyViewFrame ==
    [][pc = "ro_view" =>
          /\ pc' = "ro_view"
          /\ ret'.op \in ReadOnlyOps
          /\ file' = file /\ map' = map /\ exists' = exists]_vars

\* as_str_unchecked has run on a read-only view of a 3-byte file, which is
\* as it was found.
C14_Witness ==
    /\ pc = "ro_view" /\ ret.op = "as_str_unchecked"
    /\ map = 3 /\ file = prior.file /\ Len(file) = 3

\* C15: after a write that returned Ok the capacity is C * 2^k, C the
\* capacity on entry and k the least k >= 0 with C * 2^k >= pos + len(chunk):
\* no resize when the chunk fits (equality included), no doubling too many.
C15_LeastDoubling ==
    (WriteReturned /\ ret.ok) =>
        /\ map = map0 * Pow2(grows)
        /\ map >= pos0 + Len(buf)
        /\ grows > 0 => map0 * Pow2(grows - 1) < pos0 + Len(buf)

\* Capacity 2, pos 1, a 2-byte chunk: exactly one resize, to 4.
C15_Witness ==
    /\ WriteReturned /\ ret.ok
    /\ map0 = 2 /\ pos0 = 1 /\ Len(buf) = 2 /\ grows = 1 /\ map = 4 /\ pos = 3

\* C16: every growth resize inside write, failed or not, leaves pos as it
\* was and the bytes at [0, pos) as they were; the copy that follows a resize
\* starts at the offset the write was entered with.
C16_GrowKeepsPosAndContent ==
    [][pc = "grow" =>
          /\ pos' = pos
          /\ pos <= Len(file')
          /\ SubSeq(file', 1, pos) = SubSeq(file, 1, pos)
          /\ pc' = "write" => pos' = pos0]_vars

\* Two bytes written earlier, then a write that has doubled 2 to 4 and is
\* about to copy again at offset 2.
C16_Witness ==
    /\ pc = "write" /\ grows = 1 /\ map0 = 2 /\ map = 4
    /\ pos = 2 /\ pos0 = 2
    /\ written = <<1, 2>> /\ SubSeq(file, 1, 2) = <<1, 2>>

\* C17: inside write the copy is attempted again only after a resize that
\* succeeded (the mapping has doubled); a resize that failed ends the call at
\* once with its error, with no further copy and no further resize.
C17_RetryOnlyAfterResizeOk ==
    [][/\ pc = "grow" =>
            IF map' = 2 * map
            THEN /\ pc' = "write" /\ grows' = grows + 1 /\ ret' = ret
            ELSE /\ map' = map /\ grows' = grows
                 /\ pc' = "idle"
                 /\ ret'.op = "write" /\ ~ret'.ok /\ ret'.err \in ResizeErrors
                 /\ file' \in {file, SetLen(file, 2 * map)}
       /\ pc' = "write" =>
            \/ pc = "idle"
            \/ pc = "grow" /\ map' = 2 * map]_vars

\* A write whose first resize failed at set_len: returned with no doubling.
C17_Witness ==
    /\ WriteReturned /\ ret = ErrRet("write", "set_len_err")
    /\ grows = 0 /\ map0 = 1 /\ map = 1 /\ Len(buf) = 2

\* C18: a live writer's capacity is never 0; inside write a doubling is made
\* only while the capacity before it is short of pos + len(chunk), so the
\* doublings of one call are finitely many; and every write that is entered
\* returns.
C18_WriteTerminates ==
    /\ [](pc \in {"idle", "write", "grow"} => map >= 1)
    /\ []((pc \in {"write", "grow"} /\ grows >= 1) =>
             map0 * Pow2(grows - 1) < pos0 + Len(buf))
    /\ (pc \in {"write", "grow"}) ~> (pc = "idle")

\* A write of 3 bytes on capacity 1 has returned after two doublings.
C18_Witness ==
    /\ WriteReturned /\ map0 = 1 /\ Len(buf) = 3 /\ grows = 2 /\ map = 4

\* C19: while a writer lives, the bytes below pos are the chunks of the
\* writes that returned Ok (an overflowing copy stores only at [pos, capacity),
\* and a failed write leaves pos where it was); so after a failed write and a
\* disposal whose truncation succeeded the file is exactly those chunks.
C19_FailedWriteLeavesNoTrace ==
    /\ pc \in {"idle", "write", "grow", "drop_resize"} =>
          /\ pos <= Len(file)
          /\ SubSeq(file, 1, pos) = written
    /\ (pc = "dropped" /\ failedWrite /\ dtrace[1].res # "set_len_err") =>
          file = written

\* <<1>> written, then <<2, 2>> failed on capacity 2 (its first byte copied
\* at offset 1), then disposal: the file is <<1>>.
C19_Witness ==
    /\ pc = "dropped" /\ failedWrite /\ dtrace[1].res = "ok"
    /\ ~ret.ok /\ ret.op = "write"
    /\ buf = <<2, 2>> /\ pos0 = 1 /\ map0 = 2
    /\ written = <<1>> /\ file = <<1>>

\* The prefix of a chunk that did not fit is in the file, beyond pos, when
\* the write has failed.
PartialCopyVisible ==
    /\ WriteReturned /\ ~ret.ok
    /\ buf = <<2, 2>> /\ pos = 1 /\ map = 2 /\ file[2] = 2

=============================================================================
